---- MODULE Spec2Model ----
(***************************************************************************)
(* A model of the read side of the hashgraph name resolution SDK:          *)
(*   - MirrorNode (src/src/mirrorNode.ts): the one-page read               *)
(*     getTopicMessage and the paginated REST reads                        *)
(*     getNFTsByAccountId, getAllUserHNSNfts and getNftTopicMessages with  *)
(*     the cursor followers nextApiCall and nextApiCallTopics;             *)
(*   - the contract gateway and the resolver operations                    *)
(*     (src/unnamed/part_000): decodeFunctionResult, queryContractFunc,    *)
(*     callContractFunc and the callGet... wrappers.                       *)
(* One behaviour is one call of one public operation.  A step of the model *)
(* runs the code from the completion of one await to the next await (or to *)
(* the return / throw of the call).  The mirror node and the ledger are    *)
(* the environment: what they answer is chosen when they answer.           *)
(***************************************************************************)
EXTENDS Integers, Sequences, FiniteSets, TLC

VARIABLES
  networkType,    \* MirrorNode.networkType, set by the constructor
  baseUrl,        \* MirrorNode.baseUrl, set by the constructor
  authHeader,     \* MirrorNode.authHeader, set by the constructor
  authKey,        \* MirrorNode.authKey, set by the constructor
  cancelled,      \* the caller has raised its cancellation signal for this call
  earlier,        \* an earlier call on this instance has ended
  endLinks,       \* the links.next values the mirror node ends a link chain with
  hops,           \* the hops a resolution chain has completed, in order
  parked,         \* the other call on the instance, suspended at an await or not begun
  op,             \* the public operation this behaviour calls
  topicMessages,  \* argument: the list of topics / token collections
  userNftLists,   \* argument of getNftTopicMessages: the holdings
  nameHash,       \* argument of getTopicMessage: the hashes of the queried name
  pc,             \* "idle", the await the call is suspended at, "returned", "thrown"
  index,          \* the loop variable of the per-topic loops (1-based here)
  acc,            \* the accumulator: nfts / nftList / nftDataMessages
  frames,         \* pending frames of the recursion nextApiCall / nextApiCallTopics
  inflight,       \* the URL of the GET request in flight, or NoUrl
  requests,       \* every URL requested by this call, in order
  served,         \* every page the mirror node delivered to this call, in order
  failed,         \* the URL of the request the transport failed, or NoUrl
  nextCall,       \* what the last call of nextApiCallTopics returned, and its first link
  contractId,     \* gateway: the contract the function is called on
  funcName,       \* gateway: the function queried or executed
  funcParams,     \* gateway: the parameters of the function
  shardRange,     \* argument of callGetSLDNode: begin and end
  abi,            \* gateway: the function names in the interface description at abiPath
  keys,           \* callContractFunc: the keys to sign with
  response,       \* gateway: what the ledger answered (response / record)
  result          \* the outcome of the call

\* the fields of the MirrorNode instance
mirrorNode == <<networkType, baseUrl, authHeader, authKey>>

mirrorVars == <<topicMessages, userNftLists, index, acc, frames, served, failed, nextCall>>
\* the arguments of a gateway or resolver call
callArgs == <<contractId, funcName, funcParams, shardRange, abi, keys>>
gatewayVars == <<callArgs, response>>

vars == <<networkType, baseUrl, authHeader, authKey, cancelled, earlier, endLinks, hops,
          parked, op, topicMessages, userNftLists, nameHash, pc, index, acc,
          frames, inflight, requests, served, failed, nextCall,
          contractId, funcName, funcParams, shardRange, abi, keys, response, result>>

----------------------------------------------------------------------------
(* Bounds of the model *)

\* the longest list of topics / token collections passed to a call
MaxTopics == 2
\* the number of pages the mirror node holds for the resources of one call
MaxPages == 4
\* the number of items (NFTs, topic messages) on those pages
MaxItems == 2
\* the serial numbers minted per collection: 1..MaxSerial
MaxSerial == 3
\* the bytes of a tldHash (32 in the registry)
HashBytes == 1

----------------------------------------------------------------------------
(* Values *)

Null == "null"
Undefined == "undefined"
NoUrl == ""

NetworkTypes == {"hedera_test", "hedera_main", "arkhia_test", "arkhia_main"}

getBaseUrl(nt) ==
  CASE nt = "hedera_test" -> "https://testnet.mirrornode.hedera.com"
    [] nt = "hedera_main" -> "https://mainnet-public.mirrornode.hedera.com"
    [] nt = "arkhia_test" -> "https://hedera.testnet.arkhia.io"
    [] nt = "arkhia_main" -> "https://hashport.arkhia.io/hedera/mainnet"

AccountId == "0.0.1001"
TokenIdOf(c) == "0.0.20" \o ToString(c)
TopicIdOf(c) == "0.0.30" \o ToString(c)

\* an element of the topicMessages argument
TopicInfo(c) == [topicId |-> TopicIdOf(c), tokenId |-> TokenIdOf(c)]

MirrorOps == {"getNFTsByAccountId", "getAllUserHNSNfts", "getNftTopicMessages"}

SeqsUpTo(S, n) == UNION {[1..k -> S] : k \in 0..n}

RECURSIVE Flatten(_)
Flatten(ss) == IF ss = <<>> THEN <<>> ELSE Head(ss) \o Flatten(Tail(ss))

----------------------------------------------------------------------------
(* URLs: what the code requests first, and the links the mirror node hands out *)

\* the path of the first page of a resource, as the operation o builds it
\* from the token id or topic id
FirstPath(o, id) ==
  CASE o = "getNFTsByAccountId" ->
         "/api/v1/accounts/" \o AccountId \o "/nfts?token.id=" \o id \o "&limit=100"
    [] o = "getAllUserHNSNfts" ->
         "/api/v1/tokens/" \o id \o "/nfts?account.id=" \o AccountId
    [] o = "getNftTopicMessages" ->
         "/api/v1/topics/" \o id \o "/messages"

ResourceId(o, c) == IF o = "getNftTopicMessages" THEN TopicIdOf(c) ELSE TokenIdOf(c)

\* the path of page p of resource c: the links.next value that leads to it
PagePath(o, c, p) ==
  IF p = 1 THEN FirstPath(o, ResourceId(o, c))
  ELSE FirstPath(o, ResourceId(o, c))
         \o (IF o = "getNftTopicMessages" THEN "?" ELSE "&") \o "page=" \o ToString(p)

\* the resource pages the mirror node knows, and the one a URL names
Places == MirrorOps \X (1..MaxTopics) \X (1..MaxPages)
PlaceUrl(t) == getBaseUrl(networkType) \o PagePath(t[1], t[2], t[3])
Known(url) == \E t \in Places : PlaceUrl(t) = url
Locate(url) == CHOOSE t \in Places : PlaceUrl(t) = url

----------------------------------------------------------------------------
(* The mirror node: what it may answer to a GET *)

ItemsOf(data) == IF "nfts" \in DOMAIN data THEN data.nfts ELSE data.messages

ItemsServed == Len(Flatten([i \in 1..Len(served) |-> ItemsOf(served[i].data)]))

\* the items and pages the mirror node served to the other call, and the
\* pages the other call has still to ask for
ItemsServedOther ==
  Len(Flatten([i \in 1..Len(parked.served) |-> ItemsOf(parked.served[i].data)]))

PagesOther ==
  Len(parked.served)
    + (IF parked.inflight # NoUrl THEN 1 ELSE 0)
    + (IF parked.inflight # NoUrl /\ parked.op # "getNFTsByAccountId"
       THEN Len(parked.topicMessages) - parked.index ELSE 0)

\* the items the mirror node has left to serve
ItemsLeft ==
  IF ItemsServed + ItemsServedOther < MaxItems
  THEN MaxItems - ItemsServed - ItemsServedOther ELSE 0

\* the first pages the call has still to ask for after the current resource
FirstPagesAhead ==
  IF op = "getNFTsByAccountId" THEN 0 ELSE Len(topicMessages) - index

\* the mirror node may link to one more page only while pages are left
MayLinkOn == Len(served) + 2 + FirstPagesAhead + PagesOther <= MaxPages

\* an NFT of collection c, as the REST API lists it
Nft(c, s) == [token_id |-> TokenIdOf(c), serial_number |-> s]

\* a topic message: the payload is base64-encoded JSON that carries the nftId
TopicMessage(n, s) ==
  [sequence_number |-> n,
   message |-> [base64 |-> [nftId |-> TokenIdOf(1) \o ":" \o ToString(s)]]]

\* the response body for the place t with the item serials ss and the link nx
Body(t, ss, nx) ==
  IF t[1] = "getNftTopicMessages"
  THEN [messages |-> [i \in 1..Len(ss) |-> TopicMessage(ItemsServed + i, ss[i])],
        links |-> [next |-> nx]]
  ELSE [nfts |-> [i \in 1..Len(ss) |-> Nft(t[2], ss[i])],
        links |-> [next |-> nx]]

\* the bodies the mirror node may answer to a GET of url: a page it served
\* before is served again unchanged
Responses(url) ==
  IF \E i \in 1..Len(served) : served[i].url = url
  THEN {served[CHOOSE i \in 1..Len(served) : served[i].url = url].data}
  ELSE IF ~Known(url) THEN {}
  ELSE LET t == Locate(url)
       IN  {Body(t, ss, nx) :
              ss \in SeqsUpTo(1..MaxSerial, ItemsLeft),
              nx \in endLinks \cup (IF MayLinkOn /\ t[3] < MaxPages
                                  THEN {PagePath(t[1], t[2], t[3] + 1)}
                                  ELSE {})}

----------------------------------------------------------------------------
(* MirrorNode: the request primitive and the ends of a call *)

AwaitPcs == {"getNFTsByAccountId:69", "getNFTsByAccountId:74", "getTopicMessage:82",
             "getAllUserHNSNfts:134", "nextApiCall:193",
             "getNftTopicMessages:106", "nextApiCallTopics:203"}

\* a JavaScript condition on a links.next value
Truthy(v) == v \notin {Null, Undefined, ""}

Outcome(k, v, m) == [kind |-> k, value |-> v, message |-> m]

\* a variant that fires the request a second time without awaiting the first
sendGetRequestTwice(url, at) ==
  /\ inflight' = url
  /\ requests' = requests \o <<url, url>>
  /\ pc' = at
  /\ UNCHANGED result

\* sendGetRequest issues axios.get(url); the call is suspended at the await `at`
sendGetRequest(url, at) ==
  /\ inflight' = url
  /\ requests' = Append(requests, url)
  /\ pc' = at
  /\ UNCHANGED result

\* the call's promise is fulfilled with v
Return(v) ==
  /\ pc' = "returned"
  /\ result' = Outcome("value", v, "")
  /\ inflight' = NoUrl
  /\ UNCHANGED requests

\* an error leaves the call: no public operation of MirrorNode has a try / catch
Throw(m) ==
  /\ pc' = "thrown"
  /\ result' = Outcome("error", <<>>, m)
  /\ inflight' = NoUrl
  /\ UNCHANGED requests

\* a variant of the catch block that swallows the failure and hands back what
\* the call accumulated so far
OnRejectedPartial == Return(acc)

\* the catch block of sendGetRequest
OnRejected == Throw("Get Request Failed")

\* axios.get rejects (a transport error or a non-success status)
SendGetRequestFailed ==
  /\ pc \in AwaitPcs
  /\ failed' = inflight
  /\ OnRejected
  /\ UNCHANGED <<mirrorNode, cancelled, earlier, endLinks, hops, parked, nameHash, op, topicMessages, userNftLists, index, acc,
                 frames, served, nextCall, gatewayVars>>

\* a variant of push that puts the new items first
pushFront(arr, items) == items \o arr

\* arr.push(...items): the items are appended in their order
push(arr, items) == arr \o items

\* axios.get resolves with the body data
Delivered(data) == served' = Append(served, [url |-> inflight, data |-> data])

----------------------------------------------------------------------------
(* MirrorNode.getNFTsByAccountId *)

GetNFTsByAccountId ==
  /\ pc = "idle"
  /\ op' = "getNFTsByAccountId"
  /\ sendGetRequest(getBaseUrl(networkType) \o FirstPath("getNFTsByAccountId", TokenIdOf(1)),
                    "getNFTsByAccountId:69")
  /\ UNCHANGED <<mirrorNode, cancelled, earlier, endLinks, hops, parked, nameHash, mirrorVars, gatewayVars>>

\* lines 70-78: the response of line 69 or of line 74 has arrived
GetNFTsByAccountIdPage ==
  /\ pc \in {"getNFTsByAccountId:69", "getNFTsByAccountId:74"}
  /\ \E data \in Responses(inflight) :
       LET nfts == push(acc, data.nfts)
       IN  /\ Delivered(data)
           /\ acc' = nfts
           /\ IF Truthy(data.links.next)
              THEN sendGetRequest(getBaseUrl(networkType) \o data.links.next,
                                  "getNFTsByAccountId:74")
              ELSE Return(nfts)
  /\ UNCHANGED <<mirrorNode, cancelled, earlier, endLinks, hops, parked, nameHash, op, topicMessages, userNftLists, index, frames, failed,
                 nextCall, gatewayVars>>

----------------------------------------------------------------------------
(* MirrorNode.getTopicMessage *)

\* the topic of the top-level domains, imported from the package index
MAIN_TLD_TOPIC_ID == "MAIN_TLD_TOPIC_ID"

TldTopicPath == "/api/v1/topics/" \o MAIN_TLD_TOPIC_ID \o "/messages"

HexDigits == <<"0", "1", "2", "3", "4", "5", "6", "7",
               "8", "9", "a", "b", "c", "d", "e", "f">>

\* Buffer.toString('hex'): two lowercase digits per byte
RECURSIVE toStringHex(_)
toStringHex(buf) ==
  IF buf = <<>> THEN ""
  ELSE HexDigits[(Head(buf) \div 16) + 1] \o HexDigits[(Head(buf) % 16) + 1]
         \o toStringHex(Tail(buf))

\* the tldHash buffers a caller may query
TldHashes == [1..HashBytes -> {10, 171}]

\* the tldHash strings the messages of the topic may carry: the lowercase hex
\* of a hash, or the same digits with a 0x prefix
TldHashStrings ==
  {toStringHex(b) : b \in TldHashes} \cup {"0x" \o toStringHex(b) : b \in TldHashes}

\* message n of the topic: the payload is base64-encoded JSON that carries
\* the nameHash of a top-level domain and the topic of its names
TldMessage(n, h) ==
  [sequence_number |-> n,
   message |-> [base64 |-> [nameHash |-> [domain |-> "hbar", tldHash |-> h],
                            topicId |-> TopicIdOf(n)]]]

\* the bodies the mirror node may answer to a GET of the first page of the
\* topic: the page may link to a second one
TldResponses ==
  {[messages |-> [i \in 1..Len(hs) |-> TldMessage(i, hs[i])], links |-> [next |-> nx]] :
     hs \in SeqsUpTo(TldHashStrings, MaxItems),
     nx \in endLinks \cup {TldTopicPath \o "?page=2"}}

\* lines 84-87: messages.map(x => JSON.parse(Buffer.from(x.message, 'base64').toString()))
decoded(messages) == [i \in 1..Len(messages) |-> messages[i].message.base64]

\* a variant of find that hands back the last element that satisfies the test
foundLast(msgs, hex) ==
  LET hits == {i \in 1..Len(msgs) : msgs[i].nameHash.tldHash = hex}
  IN  IF hits = {} THEN Undefined
      ELSE msgs[CHOOSE i \in hits : \A j \in hits : j <= i]

\* lines 88-90: topicMessages.find(message => message.nameHash.tldHash === hex)
found(msgs, hex) ==
  LET hits == {i \in 1..Len(msgs) : msgs[i].nameHash.tldHash = hex}
  IN  IF hits = {} THEN Undefined
      ELSE msgs[CHOOSE i \in hits : \A j \in hits : i <= j]

GetTopicMessage ==
  /\ pc = "idle"
  /\ op' = "getTopicMessage"
  /\ \E h \in TldHashes : nameHash' = [tldHash |-> h]
  /\ sendGetRequest(getBaseUrl(networkType) \o TldTopicPath, "getTopicMessage:82")
  /\ UNCHANGED <<mirrorNode, cancelled, earlier, endLinks, hops, parked, mirrorVars,
                 gatewayVars>>

\* lines 83-91: the response of line 82 has arrived
GetTopicMessagePage ==
  /\ pc = "getTopicMessage:82"
  /\ \E data \in TldResponses :
       /\ Delivered(data)
       /\ Return(found(decoded(data.messages), toStringHex(nameHash.tldHash)))
  /\ UNCHANGED <<mirrorNode, cancelled, earlier, endLinks, hops, parked, nameHash, op,
                 topicMessages, userNftLists, index, acc, frames, failed, nextCall,
                 gatewayVars>>

----------------------------------------------------------------------------
(* MirrorNode.getAllUserHNSNfts and MirrorNode.nextApiCall *)

GetAllUserHNSNfts ==
  /\ pc = "idle"
  /\ op' = "getAllUserHNSNfts"
  /\ \E n \in 0..MaxTopics :
       /\ topicMessages' = [i \in 1..n |-> TopicInfo(i)]
       /\ IF n = 0
          THEN Return(<<>>)
          ELSE sendGetRequest(getBaseUrl(networkType)
                                \o FirstPath("getAllUserHNSNfts", topicMessages'[1].tokenId),
                              "getAllUserHNSNfts:134")
  /\ UNCHANGED <<mirrorNode, cancelled, earlier, endLinks, hops, parked, nameHash, userNftLists, index, acc, frames, served, failed,
                 nextCall, gatewayVars>>

\* the end of one iteration of the loop of lines 131-143 with the list nftList
NextCollection(nftList) ==
  /\ acc' = nftList
  /\ frames' = <<>>
  /\ index' = index + 1
  /\ IF index < Len(topicMessages)
     THEN sendGetRequest(getBaseUrl(networkType)
                           \o FirstPath("getAllUserHNSNfts", topicMessages[index + 1].tokenId),
                         "getAllUserHNSNfts:134")
     ELSE Return(nftList)

\* lines 135-142: the first page of a collection has arrived
GetAllUserHNSNftsPage ==
  /\ pc = "getAllUserHNSNfts:134"
  /\ \E nftData \in Responses(inflight) :
       LET nftList == push(acc, nftData.nfts)
       IN  /\ Delivered(nftData)
           /\ IF nftData.links.next # Null
              THEN /\ acc' = nftList
                   /\ sendGetRequest(getBaseUrl(networkType) \o nftData.links.next,
                                     "nextApiCall:193")
                   /\ UNCHANGED <<index, frames>>
              ELSE NextCollection(nftList)
  /\ UNCHANGED <<mirrorNode, cancelled, earlier, endLinks, hops, parked, nameHash, op, topicMessages, userNftLists, failed, nextCall, gatewayVars>>

\* lines 195-198 and 141: a page requested by nextApiCall has arrived.  On the
\* last page the recursion unwinds: a pending frame calls nextData.data.concat,
\* and data is an object, which has no concat: a TypeError
NextApiCallPage ==
  /\ pc = "nextApiCall:193"
  /\ \E nextData \in Responses(inflight) :
       /\ Delivered(nextData)
       /\ IF nextData.links.next # Null
          THEN /\ frames' = Append(frames, nextData)
               /\ sendGetRequest(getBaseUrl(networkType) \o nextData.links.next,
                                 "nextApiCall:193")
               /\ UNCHANGED <<index, acc>>
          ELSE IF frames # <<>>
               THEN /\ Throw("nextData.data.concat is not a function")
                    /\ UNCHANGED <<index, acc, frames>>
               ELSE NextCollection(push(acc, nextData.nfts))
  /\ UNCHANGED <<mirrorNode, cancelled, earlier, endLinks, hops, parked, nameHash, op, topicMessages, userNftLists, failed, nextCall, gatewayVars>>

----------------------------------------------------------------------------
(* MirrorNode.getNftTopicMessages and MirrorNode.nextApiCallTopics *)

\* the holdings lists a call is given: the first k serials of the first
\* collection (the code only compares identities, so which k serials are held
\* makes no difference); the events on the topics range over all the serials
HoldingsLists == {[i \in 1..k |-> i] : k \in 0..MaxSerial}

\* JSON.parse(Buffer.from(x.message, 'base64').toString())
currMsgInfo(x) == x.message.base64

\* a variant of the filter predicate with `every` in the place of `some`
IsHeldByEvery(x) ==
  \A i \in 1..Len(userNftLists) :
     currMsgInfo(x).nftId
       = userNftLists[i].token_id \o ":" \o ToString(userNftLists[i].serial_number)

\* the filter predicate of lines 107-110 and 117-120
IsHeld(x) ==
  \E i \in 1..Len(userNftLists) :
     currMsgInfo(x).nftId
       = userNftLists[i].token_id \o ":" \o ToString(userNftLists[i].serial_number)

filteredData(messages) == SelectSeq(messages, IsHeld)

GetNftTopicMessages ==
  /\ pc = "idle"
  /\ op' = "getNftTopicMessages"
  /\ \E n \in 0..MaxTopics, h \in HoldingsLists :
       /\ topicMessages' = [i \in 1..n |-> TopicInfo(i)]
       /\ userNftLists' = [i \in 1..Len(h) |-> Nft(1, h[i])]
       /\ IF n = 0
          THEN Return(<<>>)
          ELSE sendGetRequest(getBaseUrl(networkType)
                                \o FirstPath("getNftTopicMessages", topicMessages'[1].topicId),
                              "getNftTopicMessages:106")
  /\ UNCHANGED <<mirrorNode, cancelled, earlier, endLinks, hops, parked, nameHash, index, acc, frames, served, failed, nextCall, gatewayVars>>

\* a variant of the loop end that treats an exhausted log with unmatched
\* holdings as an error
NextTopicStrict(nftDataMessages) ==
  /\ acc' = nftDataMessages
  /\ frames' = <<>>
  /\ IF Len(nftDataMessages) = Len(userNftLists)
     THEN /\ Return(nftDataMessages)
          /\ UNCHANGED index
     ELSE /\ index' = index + 1
          /\ IF index < Len(topicMessages)
             THEN sendGetRequest(getBaseUrl(networkType)
                                   \o FirstPath("getNftTopicMessages",
                                                topicMessages[index + 1].topicId),
                                 "getNftTopicMessages:106")
             ELSE Throw("holdings without a registration event")

\* line 123 and the loop header of line 103, with the list nftDataMessages
NextTopic(nftDataMessages) ==
  /\ acc' = nftDataMessages
  /\ frames' = <<>>
  /\ IF Len(nftDataMessages) = Len(userNftLists)
     THEN /\ Return(nftDataMessages)
          /\ UNCHANGED index
     ELSE /\ index' = index + 1
          /\ IF index < Len(topicMessages)
             THEN sendGetRequest(getBaseUrl(networkType)
                                   \o FirstPath("getNftTopicMessages",
                                                topicMessages[index + 1].topicId),
                                 "getNftTopicMessages:106")
             ELSE Return(nftDataMessages)

\* lines 107-123: the first page of a topic has arrived
GetNftTopicMessagesPage ==
  /\ pc = "getNftTopicMessages:106"
  /\ \E data \in Responses(inflight) :
       LET nftDataMessages == push(acc, filteredData(data.messages))
       IN  /\ Delivered(data)
           /\ IF Truthy(data.links.next)
              THEN /\ acc' = nftDataMessages
                   /\ sendGetRequest(getBaseUrl(networkType) \o data.links.next,
                                     "nextApiCallTopics:203")
                   /\ UNCHANGED <<index, frames>>
              ELSE NextTopic(nftDataMessages)
  /\ UNCHANGED <<mirrorNode, cancelled, earlier, endLinks, hops, parked, nameHash, op, topicMessages, userNftLists, failed, nextCall, gatewayVars>>

RECURSIVE Unwind(_, _)
\* the returns of the pending frames of nextApiCallTopics, innermost first:
\* nextData.data.messages.concat(<what the deeper call returned>)
Unwind(fs, ret) ==
  IF fs = <<>> THEN ret
  ELSE Unwind(SubSeq(fs, 1, Len(fs) - 1), fs[Len(fs)] \o ret)

\* lines 205-208 and 117-123: a page requested by nextApiCallTopics has arrived
NextApiCallTopicsPage ==
  /\ pc = "nextApiCallTopics:203"
  /\ \E nextData \in Responses(inflight) :
       /\ Delivered(nextData)
       /\ IF nextData.links.next # Null
          THEN /\ frames' = Append(frames, nextData.messages)
               /\ sendGetRequest(getBaseUrl(networkType) \o nextData.links.next,
                                 "nextApiCallTopics:203")
               /\ UNCHANGED <<index, acc, nextCall>>
          ELSE LET returned == Unwind(frames, nextData.messages)
               IN  /\ nextCall' = [of |-> requests[Len(requests) - Len(frames)],
                                   messages |-> returned]
                   /\ NextTopic(push(acc, filteredData(returned)))
  /\ UNCHANGED <<mirrorNode, cancelled, earlier, endLinks, hops, parked, nameHash, op, topicMessages, userNftLists, failed, gatewayVars>>

----------------------------------------------------------------------------
(* The ledger and the interface descriptions, as the gateway sees them *)

\* the largest number and the largest contract number the ledger answers with
MaxValue == 2

FunctionNames == {"getNumNodes", "getTLD", "getSLDNode", "getSerial",
                  "getSLDInfo", "getSubdomainInfo", "dumpNames"}

\* the declared output of a function of the registry contracts
OutputType(fn) ==
  CASE fn \in {"getNumNodes", "getSerial"} -> "uint256"
    [] fn \in {"getTLD", "getSLDNode"} -> "address"
    [] fn \in {"getSLDInfo", "getSubdomainInfo"} -> "tuple"
    [] fn = "dumpNames" -> "string[]"

\* a JavaScript value: a tag and a payload
Val(t, v) == [t |-> t, v |-> v]
UndefinedValue == Val("undefined", 0)
NaN == Val("NaN", 0)

\* the values a contract function can return; address 0 is the zero address,
\* a uint256 or tuple of zeros is what a contract holds for a missing record
ReturnValues(fn) ==
  CASE OutputType(fn) = "uint256" -> {Val("uint256", n) : n \in 0..MaxValue}
    [] OutputType(fn) = "address" -> {Val("address", n) : n \in 0..MaxValue}
    [] OutputType(fn) = "tuple" ->
         {Val("tuple", <<n, a>>) : n \in {0, MaxValue}, a \in {0, MaxValue}}
    [] OutputType(fn) = "string[]" -> {Val("string[]", <<>>), Val("string[]", <<"a", "b">>)}

\* what an awaited ledger call ends with.  what: "rejected" (the promise
\* rejects), "null" (no response / no record), "nobytes" (no result bytes /
\* no contractFunctionResult), "empty" (zero bytes), "bytes"
Answer(what, status, value) == [what |-> what, status |-> status, bytes |-> value]
NoResponse == Answer("none", "", UndefinedValue)

QueryAnswers(fn) ==
  {Answer(w, "", UndefinedValue) : w \in {"rejected", "null", "nobytes", "empty"}}
    \cup {Answer("bytes", "", v) : v \in ReturnValues(fn)}

RecordAnswers(fn) ==
  {Answer(w, st, UndefinedValue) :
     w \in {"rejected", "null", "nobytes"}, st \in {"SUCCESS"}}
    \cup {Answer("bytes", st, v) :
            st \in {"SUCCESS", "CONTRACT_REVERT_EXECUTED"}, v \in ReturnValues(fn)}

\* the interface description files a call may find at abiPath: with the
\* function, or without it
AbiFiles(fn) == {FunctionNames, FunctionNames \ {fn}}

----------------------------------------------------------------------------
(* decodeFunctionResult, queryContractFunc, callContractFunc *)

\* the outcome of an expression: a value, or a thrown error
Value(v) == Outcome("value", v, "")
Thrown(m) == Outcome("error", UndefinedValue, m)

\* lines 41-48: abi.find yields undefined for an unknown name and
\* functionAbi.outputs throws; decodeParameters throws on bytes that do not
\* hold the declared outputs; the result is indexed from 0
decodeFunctionResult(functionName, abiFile, resultAsBytes) ==
  IF functionName \notin abiFile
  THEN Thrown("Cannot read properties of undefined (reading 'outputs')")
  ELSE IF resultAsBytes.t # OutputType(functionName)
       THEN Thrown("Returned values aren't valid")
       ELSE Value(Val("Result", <<resultAsBytes>>))

\* the bytes of an answer: a zero-length array when it holds none
BytesOf(r) == IF r.what = "bytes" THEN r.bytes ELSE Val("empty", 0)

\* lines 126-152: what queryContractFunc returns to its caller for the answer r
\* of tx.execute.  Every error is caught at line 149 and an Error object is
\* RETURNED at line 151
queryContractFunc(fn, abiFile, r) ==
  LET body == IF r.what = "rejected" THEN Thrown("execute failed")
              ELSE IF r.what \in {"null", "nobytes"}
                   THEN Thrown("ContractCallQuery failed")
                   ELSE decodeFunctionResult(fn, abiFile, BytesOf(r))
  IN  IF body.kind = "error"
      THEN Value(Val("Error", "queryContractFunc failed"))
      ELSE body

\* a variant that does not look at the status of the receipt
callContractFuncAnyStatus(fn, abiFile, r) ==
  LET body == IF r.what = "rejected" THEN Thrown("getRecord failed")
              ELSE IF r.what \in {"null", "nobytes"}
                   THEN Thrown("ContractExecuteTransaction failed")
                   ELSE decodeFunctionResult(fn, abiFile, BytesOf(r))
  IN  IF body.kind = "error"
      THEN Value(Val("Error", "callContractFunc failed"))
      ELSE body

\* lines 89-103: what callContractFunc returns for the record r of getRecord
callContractFunc(fn, abiFile, r) ==
  LET body == IF r.what = "rejected" THEN Thrown("getRecord failed")
              ELSE IF r.what \in {"null", "nobytes"} \/ r.status # "SUCCESS"
                   THEN Thrown("ContractExecuteTransaction failed")
                   ELSE decodeFunctionResult(fn, abiFile, BytesOf(r))
  IN  IF body.kind = "error"
      THEN Value(Val("Error", "callContractFunc failed"))
      ELSE body

----------------------------------------------------------------------------
(* The resolver operations *)

ResolverOps == {"callGetNumNodes", "callGetTLD", "callGetSLDNode", "callGetSerial",
                "callGetSLDInfo", "callGetSubdomainInfo", "callDumpNames"}

\* the function each resolver operation queries
FuncOf(o) ==
  CASE o = "callGetNumNodes" -> "getNumNodes"
    [] o = "callGetTLD" -> "getTLD"
    [] o = "callGetSLDNode" -> "getSLDNode"
    [] o = "callGetSerial" -> "getSerial"
    [] o = "callGetSLDInfo" -> "getSLDInfo"
    [] o = "callGetSubdomainInfo" -> "getSubdomainInfo"
    [] o = "callDumpNames" -> "dumpNames"

\* the contracts of the registry: 0.0.n
ContractIds == {Val("ContractId", n) : n \in 0..MaxValue}

\* getTLDManagerInfo: the well-known manager contract and its interface
getTLDManagerInfo == [id |-> Val("ContractId", 1000), abi |-> "TLD_MANAGER_ABI"]

\* the shard ranges a caller may pass to callGetSLDNode; <<0, 0>> is the default
ShardRanges == (0..MaxValue) \X (0..MaxValue)

\* a variant that passes the range in the wrong order
getSLDNodeParamsSwapped(sldHash, begin, end) ==
  <<sldHash, ToString(end), ToString(begin)>>

\* lines 261-264: addBytes32(nameHash.sldHash).addUint256(begin).addUint256(end)
getSLDNodeParams(sldHash, begin, end) ==
  <<sldHash, ToString(begin), ToString(end)>>

\* the parameters each resolver operation builds for its function
ParamsOf(o, range) ==
  CASE o \in {"callGetNumNodes", "callDumpNames"} -> <<>>
    [] o = "callGetTLD" -> <<"tldHash">>
    [] o = "callGetSLDNode" -> getSLDNodeParams("sldHash", range[1], range[2])
    [] o \in {"callGetSerial", "callGetSLDInfo"} -> <<"sldHash">>
    [] o = "callGetSubdomainInfo" -> <<"subdomainHash">>

\* the message of the error each resolver operation throws from its catch block
FailureOf(o) ==
  CASE o = "callGetNumNodes" -> "Failed to call getNumNodes"
    [] o = "callGetTLD" -> "Failed to call getTLD"
    [] o = "callGetSLDNode" -> "Failed to call getSLDNode"
    [] o = "callGetSerial" -> "Failed to call getSerial"
    [] o \in {"callGetSLDInfo", "callGetSubdomainInfo", "callDumpNames"} ->
         "Failed to call getDomainInfo"

\* result[0]: the first decoded output; an Error object has no property 0
Index0(res) == IF res.t = "Result" THEN res.v[1] ELSE UndefinedValue

\* a variant that counts from zero
NumberFromZero(x) == IF x.t = "uint256" THEN Val("number", x.v - 1) ELSE NaN

\* Number(x) for a decoded uint256 (a decimal string) or undefined
Number(x) == IF x.t = "uint256" THEN Val("number", x.v) ELSE NaN

\* ContractId.fromSolidityAddress: the zero address gives the contract 0.0.0;
\* a value that is no address string throws
fromSolidityAddress(x) ==
  IF x.t = "address" THEN Value(Val("ContractId", x.v))
  ELSE Thrown("address is not a string")

\* the body of the try block of a resolver operation after the query returned
\* res, and its catch block, which rethrows
ResolverOutcome(o, res) ==
  LET body ==
        CASE o \in {"callGetNumNodes", "callGetSerial"} -> Value(Number(Index0(res)))
          [] o \in {"callGetTLD", "callGetSLDNode"} -> fromSolidityAddress(Index0(res))
          [] o \in {"callGetSLDInfo", "callGetSubdomainInfo", "callDumpNames"} ->
               Value(Index0(res))
  IN  IF body.kind = "error" THEN Thrown(FailureOf(o)) ELSE body

\* the call ends with the outcome out
Settle(out) ==
  /\ pc' = IF out.kind = "error" THEN "thrown" ELSE "returned"
  /\ result' = out
  /\ inflight' = NoUrl
  /\ UNCHANGED requests

\* the remote call `what` is sent to the ledger; the call is suspended at `at`
Remote(what, at) ==
  /\ requests' = Append(requests, what)
  /\ inflight' = what
  /\ pc' = at
  /\ UNCHANGED result

\* a direct call of queryContractFunc, up to the await of line 136
QueryContractFunc ==
  /\ pc = "idle"
  /\ op' = "queryContractFunc"
  /\ \E fn \in FunctionNames :
       /\ funcName' = fn
       /\ contractId' \in ContractIds
       /\ funcParams' = <<>>
       /\ abi' \in AbiFiles(fn)
       /\ Remote("ContractCallQuery:" \o fn, "queryContractFunc:136")
  /\ UNCHANGED <<mirrorNode, cancelled, earlier, endLinks, hops, parked, nameHash, mirrorVars, shardRange, keys, response>>

\* the resolver operation o is called with the contract cid (callGetTLD
\* takes the manager instead) and the shard range: up to the await of line 136
Invoke(o, cid, range) ==
  /\ op' = o
  /\ funcName' = FuncOf(o)
  /\ contractId' = IF o = "callGetTLD" THEN getTLDManagerInfo.id ELSE cid
  /\ shardRange' = [begin |-> range[1], end |-> range[2]]
  /\ funcParams' = ParamsOf(o, range)
  /\ abi' \in AbiFiles(FuncOf(o))
  /\ Remote("ContractCallQuery:" \o FuncOf(o), "queryContractFunc:136")
  /\ UNCHANGED <<mirrorNode, cancelled, earlier, endLinks, parked, nameHash, mirrorVars, keys,
                 response>>

\* a call of the resolver operation o
CallGet(o) ==
  /\ pc = "idle"
  /\ \E cid \in ContractIds,
        range \in IF o = "callGetSLDNode" THEN ShardRanges ELSE {<<0, 0>>} :
       Invoke(o, cid, range)
  /\ UNCHANGED hops

\* tx.execute of line 136 ends; queryContractFunc returns, and a resolver
\* operation that called it runs on to its return or throw
QueryExecuted ==
  /\ pc = "queryContractFunc:136"
  /\ \E r \in QueryAnswers(funcName) :
       /\ response' = r
       /\ IF op = "queryContractFunc"
          THEN Settle(queryContractFunc(funcName, abi, r))
          ELSE Settle(ResolverOutcome(op, queryContractFunc(funcName, abi, r).value))
  /\ UNCHANGED <<mirrorNode, cancelled, earlier, endLinks, hops, parked, nameHash, op, mirrorVars, callArgs>>

\* a call of callContractFunc, up to the await of line 85 (with keys: line 84
\* starts one tx.sign per key) or 88
CallContractFunc ==
  /\ pc = "idle"
  /\ op' = "callContractFunc"
  /\ \E fn \in {"getSerial", "getTLD"}, ks \in {<<>>, <<"key1">>, <<"key1", "key2">>} :
       /\ funcName' = fn
       /\ contractId' \in ContractIds
       /\ funcParams' = <<>>
       /\ keys' = ks
       /\ abi' \in AbiFiles(fn)
       /\ IF ks # <<>>
          THEN /\ requests' = requests \o [i \in 1..Len(ks) |-> "sign:" \o ks[i]]
               /\ inflight' = "sign"
               /\ pc' = "callContractFunc:85"
               /\ UNCHANGED result
          ELSE Remote("ContractExecuteTransaction:" \o fn, "callContractFunc:88")
  /\ UNCHANGED <<mirrorNode, cancelled, earlier, endLinks, hops, parked, nameHash, mirrorVars, shardRange, response>>

\* line 85: every signature is attached; line 88 submits the transaction
CallContractFuncSigned ==
  /\ pc = "callContractFunc:85"
  /\ Remote("ContractExecuteTransaction:" \o funcName, "callContractFunc:88")
  /\ UNCHANGED <<mirrorNode, cancelled, earlier, endLinks, hops, parked, nameHash, op, mirrorVars, gatewayVars>>

\* line 88: the transaction is submitted; line 89 asks for its record
CallContractFuncExecuted ==
  /\ pc = "callContractFunc:88"
  /\ Remote("getRecord:" \o funcName, "callContractFunc:89")
  /\ UNCHANGED <<mirrorNode, cancelled, earlier, endLinks, hops, parked, nameHash, op, mirrorVars, gatewayVars>>

\* line 89: getRecord ends; lines 90-103
CallContractFuncRecord ==
  /\ pc = "callContractFunc:89"
  /\ \E r \in RecordAnswers(funcName) :
       /\ response' = r
       /\ Settle(callContractFunc(funcName, abi, r))
  /\ UNCHANGED <<mirrorNode, cancelled, earlier, endLinks, hops, parked, nameHash, op, mirrorVars, callArgs>>

\* tx.sign or tx.execute rejects: caught at line 101
CallContractFuncRejected ==
  /\ pc \in {"callContractFunc:85", "callContractFunc:88"}
  /\ response' = Answer("rejected", "", UndefinedValue)
  /\ Settle(callContractFunc(funcName, abi, response'))
  /\ UNCHANGED <<mirrorNode, cancelled, earlier, endLinks, hops, parked, nameHash, op, mirrorVars, callArgs>>

----------------------------------------------------------------------------
(* The caller: construction, cancellation, one call after another *)

\* the instances the model starts from: new MirrorNode('hedera_main') and
\* new MirrorNode('arkhia_main', 'x-api-key', 'secret')
Constructed ==
  {[networkType |-> "hedera_main", authHeader |-> "", authKey |-> ""],
   [networkType |-> "arkhia_main", authHeader |-> "x-api-key", authKey |-> "secret"]}

\* lines 54-59: the constructor
constructor(nt, header, key) ==
  /\ networkType = nt
  /\ baseUrl = getBaseUrl(nt)
  /\ authHeader = header
  /\ authKey = key

\* the state of a call that has not begun: the parameters and locals of the
\* operations exist only during a call
NoCall ==
  [op |-> "none", pc |-> "idle", topicMessages |-> <<>>, userNftLists |-> <<>>,
   nameHash |-> [tldHash |-> <<>>],
   index |-> 1, acc |-> <<>>, frames |-> <<>>, inflight |-> NoUrl,
   requests |-> <<>>, served |-> <<>>, failed |-> NoUrl,
   nextCall |-> [of |-> NoUrl, messages |-> <<>>],
   contractId |-> UndefinedValue, funcName |-> "", funcParams |-> <<>>,
   shardRange |-> [begin |-> 0, end |-> 0], abi |-> {}, keys |-> <<>>,
   response |-> NoResponse, result |-> Outcome("none", <<>>, "")]

\* the caller of a paginated read raises its cancellation signal while the
\* read is in flight; no parameter, field or global of the code receives it
Cancel ==
  /\ op \in MirrorOps
  /\ pc \in AwaitPcs
  /\ ~cancelled
  /\ cancelled' = TRUE
  /\ UNCHANGED <<mirrorNode, earlier, endLinks, hops, parked, nameHash, op, pc, inflight,
                 requests, result, mirrorVars, gatewayVars>>

\* the hops of the resolution of a second-level name, and the independent
\* read of its serial: each takes the contract the hop before it returned
ChainOps == <<"callGetTLD", "callGetSLDNode", "callGetSLDInfo", "callGetSerial">>

\* what a completed hop leaves behind
Hop == [op |-> op, contractId |-> contractId, funcName |-> funcName, abi |-> abi,
        response |-> response, result |-> result]

\* the resolution starts: the manager is asked for the TLD node
ResolveName ==
  /\ pc = "idle"
  /\ hops = <<>>
  /\ Invoke(ChainOps[1], getTLDManagerInfo.id, <<0, 0>>)
  /\ UNCHANGED hops

\* a hop has returned and the next one is called: callGetSLDNode on the TLD
\* node, with the default range; callGetSLDInfo and then callGetSerial on the
\* SLD node.  A hop that throws ends the chain
NextHop ==
  /\ pc = "returned"
  /\ Len(hops) < Len(ChainOps) - 1
  /\ op = ChainOps[Len(hops) + 1]
  /\ hops' = Append(hops, Hop)
  /\ Invoke(ChainOps[Len(hops) + 2],
            IF Len(hops) < 2 THEN result.value ELSE hops[2].result.value,
            <<0, 0>>)

\* the call the variables describe
ThisCall ==
  [op |-> op, pc |-> pc, topicMessages |-> topicMessages, userNftLists |-> userNftLists,
   nameHash |-> nameHash,
   index |-> index, acc |-> acc, frames |-> frames, inflight |-> inflight,
   requests |-> requests, served |-> served, failed |-> failed, nextCall |-> nextCall,
   contractId |-> contractId, funcName |-> funcName, funcParams |-> funcParams,
   shardRange |-> shardRange, abi |-> abi, keys |-> keys,
   response |-> response, result |-> result]

\* the locals and the await position of the call c become the variables
Resume(c) ==
  /\ op' = c.op /\ pc' = c.pc
  /\ topicMessages' = c.topicMessages /\ userNftLists' = c.userNftLists
  /\ nameHash' = c.nameHash
  /\ index' = c.index /\ acc' = c.acc /\ frames' = c.frames
  /\ inflight' = c.inflight /\ requests' = c.requests
  /\ served' = c.served /\ failed' = c.failed /\ nextCall' = c.nextCall
  /\ contractId' = c.contractId /\ funcName' = c.funcName
  /\ funcParams' = c.funcParams /\ shardRange' = c.shardRange
  /\ abi' = c.abi /\ keys' = c.keys
  /\ response' = c.response /\ result' = c.result

\* a variant in which the accumulator is one list of the instance that both
\* calls push to
SwitchSharingAcc ==
  /\ pc \in AwaitPcs \cup {"returned", "thrown"}
  /\ parked.pc \notin {"returned", "thrown"}
  /\ parked' = ThisCall
  /\ Resume([parked EXCEPT !.acc = acc])
  /\ UNCHANGED <<mirrorNode, cancelled, earlier, endLinks, hops>>

\* the running call is suspended at an await (or has ended) and the event
\* loop runs the other call: its start, or the continuation of its await.
\* Every local of an operation (res, nfts, nftList, nftDataMessages, index)
\* belongs to one invocation
Switch ==
  /\ pc \in AwaitPcs \cup {"returned", "thrown"}
  /\ parked.pc \notin {"returned", "thrown"}
  /\ parked' = ThisCall
  /\ Resume(parked)
  /\ UNCHANGED <<mirrorNode, cancelled, earlier, endLinks, hops>>

\* a variant in which the accumulator outlives the call (a list declared
\* outside the operation)
NewCallKeepingAcc ==
  /\ pc \in {"returned", "thrown"}
  /\ earlier' = TRUE
  /\ cancelled' = FALSE
  /\ op' = NoCall.op /\ pc' = NoCall.pc
  /\ topicMessages' = NoCall.topicMessages /\ userNftLists' = NoCall.userNftLists
  /\ index' = NoCall.index /\ acc' = acc /\ frames' = NoCall.frames
  /\ inflight' = NoCall.inflight /\ requests' = NoCall.requests
  /\ served' = NoCall.served /\ failed' = NoCall.failed /\ nextCall' = NoCall.nextCall
  /\ contractId' = NoCall.contractId /\ funcName' = NoCall.funcName
  /\ funcParams' = NoCall.funcParams /\ shardRange' = NoCall.shardRange
  /\ abi' = NoCall.abi /\ keys' = NoCall.keys
  /\ response' = NoCall.response /\ result' = NoCall.result
  /\ nameHash' = NoCall.nameHash
  /\ UNCHANGED <<mirrorNode, endLinks, hops, parked>>

\* the call has ended and the caller is about to make its next call on the
\* same instance: the parameters and locals of the ended call are gone (the
\* accumulators are created by each call: lines 70, 102, 130), the fields of
\* the instance stay
NewCall ==
  /\ pc \in {"returned", "thrown"}
  /\ earlier' = TRUE
  /\ cancelled' = FALSE
  /\ op' = NoCall.op /\ pc' = NoCall.pc
  /\ topicMessages' = NoCall.topicMessages /\ userNftLists' = NoCall.userNftLists
  /\ index' = NoCall.index /\ acc' = NoCall.acc /\ frames' = NoCall.frames
  /\ inflight' = NoCall.inflight /\ requests' = NoCall.requests
  /\ served' = NoCall.served /\ failed' = NoCall.failed /\ nextCall' = NoCall.nextCall
  /\ contractId' = NoCall.contractId /\ funcName' = NoCall.funcName
  /\ funcParams' = NoCall.funcParams /\ shardRange' = NoCall.shardRange
  /\ abi' = NoCall.abi /\ keys' = NoCall.keys
  /\ response' = NoCall.response /\ result' = NoCall.result
  /\ nameHash' = NoCall.nameHash
  /\ UNCHANGED <<mirrorNode, endLinks, hops, parked>>

----------------------------------------------------------------------------
(* The specification *)

Init ==
  /\ \E c \in Constructed : constructor(c.networkType, c.authHeader, c.authKey)
  /\ cancelled = FALSE
  /\ earlier = FALSE
  /\ endLinks = {Null}
  /\ hops = <<>>
  /\ parked = NoCall
  /\ nameHash = NoCall.nameHash
  /\ op = "none"
  /\ topicMessages = <<>>
  /\ userNftLists = <<>>
  /\ pc = "idle"
  /\ index = 1
  /\ acc = <<>>
  /\ frames = <<>>
  /\ inflight = NoUrl
  /\ requests = <<>>
  /\ served = <<>>
  /\ failed = NoUrl
  /\ nextCall = [of |-> NoUrl, messages |-> <<>>]
  /\ contractId = UndefinedValue
  /\ funcName = ""
  /\ funcParams = <<>>
  /\ shardRange = [begin |-> 0, end |-> 0]
  /\ abi = {}
  /\ keys = <<>>
  /\ response = NoResponse
  /\ result = Outcome("none", <<>>, "")

Next ==
  \/ GetNFTsByAccountId
  \/ GetNFTsByAccountIdPage
  \/ GetAllUserHNSNfts
  \/ GetAllUserHNSNftsPage
  \/ NextApiCallPage
  \/ GetNftTopicMessages
  \/ GetNftTopicMessagesPage
  \/ NextApiCallTopicsPage
  \/ SendGetRequestFailed
  \/ QueryContractFunc
  \/ \E o \in ResolverOps : CallGet(o)
  \/ QueryExecuted
  \/ CallContractFunc
  \/ CallContractFuncSigned
  \/ CallContractFuncExecuted
  \/ CallContractFuncRecord
  \/ CallContractFuncRejected

Spec == Init /\ [][Next]_vars

\* the calls of a caller that may raise its cancellation signal
NextCancel == Next \/ Cancel

SpecCancel == Init /\ [][NextCancel]_vars

\* the calls on a mirror node that is held only to the type of the REST
\* envelope, links: {next: string | null}: it may end a chain with the empty
\* string
InitAnyLink ==
  /\ \E c \in Constructed : constructor(c.networkType, c.authHeader, c.authKey)
  /\ cancelled = FALSE
  /\ earlier = FALSE
  /\ endLinks = {Null, ""}
  /\ hops = <<>>
  /\ parked = NoCall
  /\ nameHash = NoCall.nameHash
  /\ op = NoCall.op /\ pc = NoCall.pc
  /\ topicMessages = NoCall.topicMessages /\ userNftLists = NoCall.userNftLists
  /\ index = NoCall.index /\ acc = NoCall.acc /\ frames = NoCall.frames
  /\ inflight = NoCall.inflight /\ requests = NoCall.requests
  /\ served = NoCall.served /\ failed = NoCall.failed /\ nextCall = NoCall.nextCall
  /\ contractId = NoCall.contractId /\ funcName = NoCall.funcName
  /\ funcParams = NoCall.funcParams /\ shardRange = NoCall.shardRange
  /\ abi = NoCall.abi /\ keys = NoCall.keys
  /\ response = NoCall.response /\ result = NoCall.result

SpecAnyLink == InitAnyLink /\ [][Next]_vars

\* the resolution chain of one name
InitChain ==
  /\ Init
  /\ networkType = "hedera_main"

NextChain ==
  \/ ResolveName
  \/ NextHop
  \/ QueryExecuted

SpecChain == InitChain /\ [][NextChain]_vars

\* two paginated reads that run concurrently on one instance
InitConc ==
  /\ Init
  /\ networkType = "hedera_main"

NextConc ==
  \/ GetNFTsByAccountId
  \/ GetNFTsByAccountIdPage
  \/ GetAllUserHNSNfts
  \/ GetAllUserHNSNftsPage
  \/ NextApiCallPage
  \/ GetNftTopicMessages
  \/ GetNftTopicMessagesPage
  \/ NextApiCallTopicsPage
  \/ SendGetRequestFailed
  \/ Switch

SpecConc == InitConc /\ [][NextConc]_vars

\* a paginated read every request of which succeeds: the transport never
\* fails, and the continuation of a fulfilled await is run by the event loop
InitSucceeding ==
  /\ Init
  /\ networkType = "hedera_main"

NextSucceeding ==
  \/ GetNFTsByAccountId
  \/ GetNFTsByAccountIdPage
  \/ GetAllUserHNSNfts
  \/ GetAllUserHNSNftsPage
  \/ NextApiCallPage
  \/ GetNftTopicMessages
  \/ GetNftTopicMessagesPage
  \/ NextApiCallTopicsPage

SpecSucceeding ==
  InitSucceeding /\ [][NextSucceeding]_vars /\ WF_vars(NextSucceeding)

\* one call of getTopicMessage
NextTld ==
  \/ GetTopicMessage
  \/ GetTopicMessagePage
  \/ SendGetRequestFailed

SpecTld == Init /\ [][NextTld]_vars

\* the calls a caller makes one after the other on one instance
InitSession ==
  /\ Init
  /\ networkType = "arkhia_main"

NextSession == Next \/ NewCall

SpecSession == InitSession /\ [][NextSession]_vars

----------------------------------------------------------------------------
(* Vocabulary of the properties *)

Ended == pc \in {"returned", "thrown"}

\* every item the mirror node delivered to the call, in the order of delivery
ServedItems == Flatten([i \in 1..Len(served) |-> ItemsOf(served[i].data)])

\* the (tokenId, serial) identities of the holdings, as events name them
HeldIds ==
  {userNftLists[i].token_id \o ":" \o ToString(userNftLists[i].serial_number) :
     i \in 1..Len(userNftLists)}

EventId(m) == m.message.base64.nftId
IsMatch(m) == EventId(m) \in HeldIds

\* the delivered events that match a holding, in the order of delivery
MatchedSoFar == SelectSeq(ServedItems, IsMatch)

\* the delivered pages that end a link chain
LastPages == {i \in 1..Len(served) : served[i].data.links.next = Null}

\* every topic of the call was read to the end of its link chain
AllFetched == Cardinality(LastPages) = Len(topicMessages)

\* requests i..j were answered by pages i..j, each request after the i-th is
\* the base URL followed by the link of the page before, only page j ends the
\* chain, and no URL is requested twice
ChainFollowed(i, j) ==
  /\ i <= j /\ j <= Len(served) /\ j <= Len(requests)
  /\ \A k \in i..j : served[k].url = requests[k]
  /\ \A k \in i..(j - 1) :
       /\ served[k].data.links.next # Null
       /\ requests[k + 1] = getBaseUrl(networkType) \o served[k].data.links.next
  /\ served[j].data.links.next = Null
  /\ \A k, l \in i..j : k < l => requests[k] # requests[l]

PagesItems(i, j) == Flatten([k \in 1..(j - i + 1) |-> ItemsOf(served[i + k - 1].data)])

----------------------------------------------------------------------------
(* Reconciliation and pagination: C1 - C6 *)

\* C1: in getNftTopicMessages, once the number of matching events delivered so
\* far equals the number of holdings, no further page is requested: with at
\* least one holding, no request is in flight while the matches delivered
\* equal the holdings.
C1_NoRequestOnceAllMatched ==
  (op = "getNftTopicMessages" /\ pc \in AwaitPcs /\ Len(userNftLists) > 0)
    => Len(MatchedSoFar) # Len(userNftLists)

\* C2: no two events returned by getNftTopicMessages carry the same
\* (tokenId, serial) identity.
C2_ResultDeduplicated ==
  (op = "getNftTopicMessages" /\ pc = "returned")
    => \A i, j \in 1..Len(result.value) :
         i < j => EventId(result.value[i]) # EventId(result.value[j])

\* C3: getNFTsByAccountId returns the concatenation of the pages of the link
\* chain in the order delivered, having requested each page once; and a call
\* of nextApiCallTopics returns the concatenation of the pages from its first
\* link to the end of the chain.
C3_CursorFollowing ==
  /\ (op = "getNFTsByAccountId" /\ pc = "returned")
       => /\ Len(requests) = Len(served)
          /\ requests[1] = getBaseUrl(networkType)
                             \o FirstPath("getNFTsByAccountId", TokenIdOf(1))
          /\ ChainFollowed(1, Len(served))
          /\ result.value = PagesItems(1, Len(served))
  /\ (op = "getNftTopicMessages" /\ nextCall.of # NoUrl)
       => \E i \in 1..Len(served) :
            /\ requests[i] = nextCall.of
            /\ \E j \in i..Len(served) :
                 /\ ChainFollowed(i, j)
                 /\ nextCall.messages = PagesItems(i, j)

C3_Witness ==
  /\ op = "getNFTsByAccountId" /\ pc = "returned"
  /\ Len(served) = 3
  /\ Len(served[1].data.nfts) = 1 /\ Len(served[3].data.nfts) = 1
  /\ served[1].data.nfts # served[3].data.nfts

\* C4: with no transport failure, getAllUserHNSNfts returns all the NFTs of
\* all the pages of every collection, in the order delivered, for any number
\* of pages per collection.
C4_HoldingsFetchComplete ==
  (op = "getAllUserHNSNfts" /\ Ended /\ failed = NoUrl)
    => /\ pc = "returned"
       /\ result.value = ServedItems

\* C5: when every page of every topic was delivered and fewer events matched
\* than there are holdings, getNftTopicMessages has returned normally, with
\* exactly the matching events delivered.
C5_PartialCoverageReturned ==
  (op = "getNftTopicMessages" /\ AllFetched /\ Len(MatchedSoFar) < Len(userNftLists))
    => /\ pc = "returned"
       /\ result.kind = "value"
       /\ result.value = MatchedSoFar

C5_Witness ==
  /\ op = "getNftTopicMessages" /\ pc = "returned"
  /\ Len(topicMessages) = 2 /\ AllFetched
  /\ Len(served) = 3
  /\ Len(userNftLists) = 2
  /\ Len(ServedItems) = 2 /\ Len(result.value) = 1
  /\ ~IsMatch(ServedItems[1]) /\ IsMatch(ServedItems[2])

\* C6: once a GET request has failed, the call has thrown: no value is
\* returned, the failed request is the last one the call issued, it was issued
\* once, and every request before it was answered.
C6_TransportFailureFatal ==
  failed # NoUrl
    => /\ pc = "thrown"
       /\ result.kind = "error"
       /\ result.message = "Get Request Failed"
       /\ inflight = NoUrl
       /\ Len(requests) = Len(served) + 1
       /\ requests[Len(requests)] = failed
       /\ \A i \in 1..Len(served) : requests[i] # failed /\ served[i].url = requests[i]

C6_Witness ==
  /\ failed # NoUrl
  /\ op = "getNftTopicMessages"
  /\ Len(served) = 2
  /\ Len(acc) = 1

----------------------------------------------------------------------------
(* Gateway and resolver failures: C7 - C10 *)

\* C7: queryContractFunc fails for its caller when the query yields no
\* response or no result bytes, and callContractFunc fails for its caller when
\* the record or its function result is absent or the status is not Success.
C7_GatewayFailureThrown ==
  /\ (op = "queryContractFunc" /\ Ended /\ response.what \in {"null", "nobytes"})
       => pc = "thrown"
  /\ (op = "callContractFunc" /\ Ended
        /\ (\/ response.what \in {"null", "nobytes"}
            \/ response.what = "bytes" /\ response.status # "SUCCESS"))
       => pc = "thrown"

\* C8: a gateway call or resolver operation that decodes result bytes with a
\* function name absent from the interface description ends in failure.
C8_UnknownFunctionRejected ==
  (op \in {"queryContractFunc", "callContractFunc"} \cup ResolverOps
     /\ Ended /\ response.what = "bytes" /\ response.status \in {"", "SUCCESS"}
     /\ funcName \notin abi)
    => pc = "thrown"

\* C9: callGetTLD and callGetSLDNode fail when the contract answers with the
\* zero address.
C9_ZeroAddressIsMiss ==
  (op \in {"callGetTLD", "callGetSLDNode"} /\ Ended
     /\ response.what = "bytes" /\ funcName \in abi
     /\ response.bytes.t = "address" /\ response.bytes.v = 0)
    => pc = "thrown"

\* C10: a resolver operation whose underlying remote query failed has failed
\* with an error and returned no value.
C10_HopFailureAborts ==
  (op \in ResolverOps /\ Ended
     /\ response.what \in {"rejected", "null", "nobytes", "empty"})
    => pc = "thrown"

----------------------------------------------------------------------------
(* The shard range of callGetSLDNode: C11, C12 *)

\* C12 as claimed: a call of callGetSLDNode with the default range (0,0) that
\* returned a node has issued more than one remote query, and the getSLDNode
\* query it issued last carries a narrowed range, not (0,0).
C12_DefaultRangeSearched ==
  (op = "callGetSLDNode" /\ pc = "returned"
     /\ shardRange = [begin |-> 0, end |-> 0]
     /\ response.what = "bytes" /\ funcName \in abi)
    => /\ Len(requests) > 1
       /\ funcParams # <<"sldHash", "0", "0">>

\* C12 as amended: callGetSLDNode issues exactly one remote query, the
\* getSLDNode function of the TLD node it was given, with the hash and the
\* range it was given, the default (0,0) included, unchanged.
C12_RangePassedThrough ==
  (op = "callGetSLDNode" /\ pc # "idle")
    => /\ requests = <<"ContractCallQuery:getSLDNode">>
       /\ funcName = "getSLDNode"
       /\ funcParams = <<"sldHash", ToString(shardRange.begin), ToString(shardRange.end)>>

C12_Witness ==
  /\ op = "callGetSLDNode" /\ pc = "returned"
  /\ shardRange = [begin |-> 0, end |-> 0]
  /\ result.value = Val("ContractId", 1)

----------------------------------------------------------------------------
(* The match filter and the order of the requests: C13, C14 *)

\* C13: getNftTopicMessages returns exactly the events, of the pages it was
\* delivered, whose identity is the token_id:serial_number of a holding, in
\* the order delivered: none without a holding, none omitted.
C13_MatchFilterExact ==
  (op = "getNftTopicMessages" /\ pc = "returned")
    => /\ result.value = MatchedSoFar
       /\ \A i \in 1..Len(result.value) : EventId(result.value[i]) \in HeldIds
       /\ \A i \in 1..Len(ServedItems) :
            EventId(ServedItems[i]) \in HeldIds
              => \E j \in 1..Len(result.value) : result.value[j] = ServedItems[i]

C13_Witness ==
  /\ op = "getNftTopicMessages" /\ pc = "returned"
  /\ Len(userNftLists) = 2
  /\ Len(served) = 2 /\ served[1].data.links.next # Null
  /\ Len(ServedItems) = 2
  /\ ~IsMatch(ServedItems[1]) /\ IsMatch(ServedItems[2])
  /\ result.value = <<ServedItems[2]>>

\* C14: a paginated read has at most one request in flight: every request but
\* the last was answered (or failed) before the next was issued, the answers
\* arrive in the order of the requests, and a request is outstanding exactly
\* while the call is suspended at an await.
C14_SequentialRequests ==
  op \in MirrorOps
    => /\ Len(requests) = Len(served) + (IF pc \in AwaitPcs \/ failed # NoUrl THEN 1 ELSE 0)
       /\ \A k \in 1..Len(served) : served[k].url = requests[k]
       /\ pc \in AwaitPcs => inflight = requests[Len(requests)]
       /\ pc \notin AwaitPcs => inflight = NoUrl

C14_Witness ==
  /\ op = "getNftTopicMessages" /\ pc = "nextApiCallTopics:203"
  /\ Len(served) = 2 /\ Len(requests) = 3
  /\ Len(frames) = 1

----------------------------------------------------------------------------
(* The order of the steps of callContractFunc: C19 *)

\* the remote steps of a complete call of callContractFunc, in the order of
\* the code: one signature per key, the submission, the record
ExecuteSteps ==
  [i \in 1..Len(keys) |-> "sign:" \o keys[i]]
    \o <<"ContractExecuteTransaction:" \o funcName, "getRecord:" \o funcName>>

\* C19: in callContractFunc the signatures of all the keys come before the
\* submission and the submission before the request of the record, and a
\* decoded result is returned only after all of them, from a record that
\* holds a function result with status Success.
C19_ExecuteOrdering ==
  op = "callContractFunc"
    => /\ Len(requests) <= Len(ExecuteSteps)
       /\ requests = SubSeq(ExecuteSteps, 1, Len(requests))
       /\ pc = "callContractFunc:88" => Len(requests) = Len(keys) + 1
       /\ pc = "callContractFunc:89" => requests = ExecuteSteps
       /\ (Ended /\ result.value.t = "Result")
            => /\ requests = ExecuteSteps
               /\ response.what = "bytes"
               /\ response.status = "SUCCESS"
               /\ result.value = Val("Result", <<response.bytes>>)

C19_Witness ==
  /\ op = "callContractFunc" /\ pc = "returned"
  /\ keys = <<"key1", "key2">>
  /\ result.value = Val("Result", <<Val("uint256", 2)>>)
  /\ Len(requests) = 4

----------------------------------------------------------------------------
(* Cancellation: C16 *)

\* C16: once the caller has raised the cancellation signal of a paginated
\* read, the read issues no further page request, and when it returns it
\* returns the items it had accumulated.
C16_CancellationStops ==
  [][(cancelled /\ op \in MirrorOps)
       => /\ requests' = requests
          /\ pc' = "returned" => result'.value = acc]_vars

----------------------------------------------------------------------------
(* No state between calls: C20 *)

\* the query answered with bytes that decode under the interface description
Decoded == response.what = "bytes" /\ funcName \in abi

\* the outcome of an ended call as its arguments and the answers it received
\* determine it
ResultOfResponses ==
  /\ (op \in {"getNFTsByAccountId", "getAllUserHNSNfts"} /\ pc = "returned")
       => result.value = ServedItems
  /\ (op = "getNftTopicMessages" /\ pc = "returned") => result.value = MatchedSoFar
  /\ (op \in MirrorOps /\ pc = "thrown")
       => \/ result.message = "Get Request Failed" /\ failed = requests[Len(requests)]
          \/ /\ result.message = "nextData.data.concat is not a function"
             /\ op = "getAllUserHNSNfts" /\ failed = NoUrl
  /\ (op \in {"callGetNumNodes", "callGetSerial"} /\ Ended)
       => result = Value(IF Decoded THEN Val("number", response.bytes.v) ELSE NaN)
  /\ (op \in {"callGetTLD", "callGetSLDNode"} /\ Ended)
       => result = IF Decoded THEN Value(Val("ContractId", response.bytes.v))
                   ELSE Thrown(FailureOf(op))
  /\ (op \in {"callGetSLDInfo", "callGetSubdomainInfo", "callDumpNames"} /\ Ended)
       => result = Value(IF Decoded THEN response.bytes ELSE UndefinedValue)

\* C20: no step of any operation changes networkType, baseUrl, authHeader or
\* authKey; every invocation of a resolver operation, also one that follows
\* earlier calls, issues its own remote query; and the outcome of every call
\* is determined by its arguments and the answers it received.
C20_NoStateRetained ==
  [][/\ networkType' = networkType /\ baseUrl' = baseUrl
     /\ authHeader' = authHeader /\ authKey' = authKey
     /\ (pc = "idle" /\ op' \in ResolverOps)
          => /\ requests' = <<"ContractCallQuery:" \o FuncOf(op')>>
             /\ inflight' = "ContractCallQuery:" \o FuncOf(op')
     /\ (op' \in ResolverOps /\ pc' \in {"returned", "thrown"}) => Len(requests') = 1
     /\ ResultOfResponses']_vars

C20_Witness ==
  /\ earlier
  /\ op = "callGetSerial" /\ pc = "returned"
  /\ requests = <<"ContractCallQuery:getSerial">>
  /\ result = Value(Val("number", 2))

----------------------------------------------------------------------------
(* The continuation condition: C18 *)

\* C18: every reader follows links.next exactly when it is not null: after a
\* delivered page whose links.next is not null the next request is the base
\* URL followed by that link, and after a page whose links.next is null the
\* call goes on, if at all, with the first page of its next resource.
C18_FollowedIffNotNull ==
  op \in MirrorOps
    => \A k \in 1..Len(served) :
         IF served[k].data.links.next # Null
         THEN /\ Len(requests) > k
              /\ requests[k + 1] = getBaseUrl(networkType) \o served[k].data.links.next
         ELSE Len(requests) > k
                => \E c \in 1..Len(topicMessages) :
                     requests[k + 1] = getBaseUrl(networkType)
                                         \o FirstPath(op, ResourceId(op, c))

----------------------------------------------------------------------------
(* The serial across the hops: C17 *)

\* the hop h was answered with bytes that decode under its interface
HopDecoded(h) == h.response.what = "bytes" /\ h.funcName \in h.abi

\* the chain callGetTLD, callGetSLDNode, callGetSLDInfo has returned and
\* callGetSerial has been called with the same SLD node and has returned; the
\* name is registered (no zero address, a serial from 1), every answer was
\* decoded, and the SLD node answered both reads from the one record
RegisteredNameResolved ==
  /\ Len(hops) = 3 /\ op = "callGetSerial" /\ pc = "returned"
  /\ \A i \in 1..3 : HopDecoded(hops[i])
  /\ Decoded
  /\ hops[1].response.bytes.v # 0 /\ hops[2].response.bytes.v # 0
  /\ response.bytes.v >= 1
  /\ hops[3].response.bytes.v[1] = response.bytes.v

----------------------------------------------------------------------------
(* Concurrent calls on one instance: C15 *)

\* every item the mirror node delivered to the call c, in the order of delivery
ItemsServedTo(c) == Flatten([i \in 1..Len(c.served) |-> ItemsOf(c.served[i].data)])

\* the identities of the holdings the call c was given
HeldIdsOf(c) ==
  {c.userNftLists[i].token_id \o ":" \o ToString(c.userNftLists[i].serial_number) :
     i \in 1..Len(c.userNftLists)}

\* the outcome the call c has when it runs alone and receives the pages that
\* were delivered to it
AloneValue(c) ==
  IF c.op = "getNftTopicMessages"
  THEN SelectSeq(ItemsServedTo(c), LAMBDA m : EventId(m) \in HeldIdsOf(c))
  ELSE ItemsServedTo(c)

\* the call c is as if it ran alone: its accumulator holds items delivered to
\* it only, and it returns what its own pages determine
AsIfAlone(c) ==
  /\ \A i \in 1..Len(c.acc) :
       \E j \in 1..Len(ItemsServedTo(c)) : c.acc[i] = ItemsServedTo(c)[j]
  /\ Len(c.acc) <= Len(ItemsServedTo(c))
  /\ c.pc = "returned" => c.result.value = AloneValue(c)
  /\ c.pc = "thrown"
       => \/ /\ c.result.message = "Get Request Failed"
             /\ c.failed = c.requests[Len(c.requests)]
          \/ /\ c.result.message = "nextData.data.concat is not a function"
             /\ c.op = "getAllUserHNSNfts" /\ c.failed = NoUrl

\* C15: when two paginated reads run on one instance with their page fetches
\* interleaved in any order, each returns the result it returns when run alone
\* on the pages delivered to it, and no item delivered to one call is in, or
\* missing from, the accumulator of the other.
C15_ConcurrentIsolated ==
  /\ AsIfAlone(ThisCall)
  /\ AsIfAlone(parked)
  /\ (pc \in {"getNFTsByAccountId:69", "getNFTsByAccountId:74", "returned"}
        /\ op = "getNFTsByAccountId")
       => acc = ItemsServedTo(ThisCall)
  /\ (parked.pc \in {"getNFTsByAccountId:69", "getNFTsByAccountId:74", "returned"}
        /\ parked.op = "getNFTsByAccountId")
       => parked.acc = ItemsServedTo(parked)

\* two reads interleaved page by page: one has returned the items of its two
\* pages while the other, begun before the first ended and served a page of
\* its own in between, still awaits
C15_Witness ==
  /\ pc = "returned" /\ op = "getNFTsByAccountId"
  /\ Len(served) = 2 /\ Len(result.value) >= 1
  /\ parked.pc \in AwaitPcs
  /\ Len(parked.served) >= 1 /\ Len(ItemsServedTo(parked)) >= 1

----------------------------------------------------------------------------
(* Termination of the paginated reads: C21 *)

\* C21: when every request succeeds and every link chain ends, each paginated
\* read that has begun eventually returns, having issued as many requests as
\* pages were delivered to it.
C21_PaginationTerminates ==
  (op \in MirrorOps /\ pc \in AwaitPcs)
    ~> (pc = "returned" /\ Len(requests) = Len(served))

----------------------------------------------------------------------------
(* The lookup of a top-level domain: C22 *)

\* C22: getTopicMessage issues one request, for the first page of the main TLD
\* topic, also when that page links to a next one; it returns the first
\* message of the page, in server order, whose nameHash.tldHash is the hex
\* form of the queried tldHash, and no value when the page has none.
C22_TldLookupOnePage ==
  op = "getTopicMessage" =>
    /\ requests = <<getBaseUrl(networkType) \o TldTopicPath>>
    /\ pc = "returned" =>
         /\ Len(served) = 1
         /\ LET page == served[1].data.messages
                hex == toStringHex(nameHash.tldHash)
                Matches(i) == page[i].message.base64.nameHash.tldHash = hex
            IN  IF \E i \in 1..Len(page) : Matches(i)
                THEN \E i \in 1..Len(page) :
                       /\ Matches(i)
                       /\ \A j \in 1..(i - 1) : ~Matches(j)
                       /\ result = Outcome("value", page[i].message.base64, "")
                ELSE result = Outcome("value", Undefined, "")

\* a returned lookup whose page linked to a second page and held two messages
\* of the queried hash: the first of the two came back
C22_Witness ==
  /\ op = "getTopicMessage" /\ pc = "returned"
  /\ served[1].data.links.next # Null
  /\ Len(served[1].data.messages) = 2
  /\ \A i \in 1..2 :
       served[1].data.messages[i].message.base64.nameHash.tldHash
         = toStringHex(nameHash.tldHash)
  /\ result.value = served[1].data.messages[1].message.base64

====
